---- MODULE Spec2Model ----
(***************************************************************************)
(* django-permagate: the permission catalog (permagate/permission.py) and  *)
(* the grant resolution (permagate/core.py).                               *)
(*                                                                         *)
(* A Python str is a sequence of one-character strings, so that split,     *)
(* join, startswith and endswith are computed character by character.      *)
(* A call's outcome is its value or the exception it raises.               *)
(***************************************************************************)
EXTENDS Naturals, Sequences, FiniteSets

\* ------------------------------------------------------------- bounds
\* longest string handed to root.exists and to has_permission
MaxLen == 4
\* longest string handed to _has_permission when it is called on its own
MaxPathLen == 3
\* longest permission string of a row when _has_permission is called on its own
MaxGrantLen == 3
\* most rows when _has_permission is called on its own
MaxGrants == 1
\* most rows of the user and the groups together under has_permission
MaxRows == 2
\* most groups of the user
MaxGroups == 2
\* most Permission objects made, the root among them
MaxNodes == 3
\* most entries of all _children lists together
MaxChildren == 2
\* longest key handed to Permission()
MaxKeyLen == 2

\* ------------------------------------------------------------- strings
\* the characters: one key letter, the key separator, the inclusive
\* wildcard and the root permission key
Char == {"a", ".", ">", "*"}

StrUpTo(n) == UNION {[1..k -> Char] : k \in 0..n}

\* the outcomes of a call besides a str: the two booleans and the two
\* exceptions, kept apart from every str over Char
True == <<"True">>
False == <<"False">>
AssertionError == <<"AssertionError">>
RecursionError == <<"RecursionError">>

\* x in s
Contains(s, x) == \E i \in 1..Len(s) : s[i] = x

\* s.startswith(x), s.endswith(x) for a one-character x
StartsWith(s, x) == Len(s) > 0 /\ s[1] = x
EndsWith(s, x) == Len(s) > 0 /\ s[Len(s)] = x

\* s.split(".")
RECURSIVE Split(_)
Split(s) ==
    IF Contains(s, ".")
    THEN LET i == CHOOSE j \in 1..Len(s) :
                     s[j] = "." /\ \A k \in 1..(j - 1) : s[k] # "."
         IN <<SubSeq(s, 1, i - 1)>> \o Split(SubSeq(s, i + 1, Len(s)))
    ELSE <<s>>

\* ".".join(segs)
RECURSIVE Join(_)
Join(segs) ==
    IF Len(segs) = 0 THEN <<>>
    ELSE IF Len(segs) = 1 THEN segs[1]
    ELSE segs[1] \o <<".">> \o Join(Tail(segs))

\* list.pop() of the last element
Pop(segs) == SubSeq(segs, 1, Len(segs) - 1)

\* ------------------------------------------------------------- state
VARIABLES
    keys,        \* keys[n]: Permission._key of object n (<<>> for a blank key)
    parent,      \* parent[n]: Permission._parent of object n (0 for None)
    children,    \* children[n]: Permission._children of object n, a list of objects
    userPerms,   \* the permission column of user.permagate_permissions.all()
    groupPerms,  \* for each group of user.groups.all(), in its order, the
                 \* permission column of group.permagate_permissions.all()
    call         \* the last call made: [op, arg, result]

vars == <<keys, parent, children, userPerms, groupPerms, call>>

NoCall == [op |-> "none", arg |-> <<>>, result |-> <<>>]

Range(s) == {s[i] : i \in 1..Len(s)}

\* ------------------------------------------------------------- permission.py
Nodes == 1..Len(keys)

\* the three assertions of Permission.__init__ on its key
KeyAccepted(key) ==
    /\ (Len(key) = 0 \/ ~Contains(key, "."))
    /\ (Len(key) = 0 \/ ~Contains(key, ">"))
    /\ (Len(key) = 0 \/ ~Contains(key, "*"))

\* Permission.__init__ on the objects c: one more object, no parent, no children
NewIn(c, key) ==
    [keys |-> Append(c.keys, key),
     parent |-> Append(c.parent, 0),
     children |-> Append(c.children, <<>>)]

\* Permission.key of an object whose _key is k
KeyOf(k) == IF Len(k) = 0 THEN <<"*">> ELSE k

Key(n) == KeyOf(keys[n])

\* Permission.is_root
is_root(n) == Len(keys[n]) = 0

\* a variant of absolute_permission that leaves the parents out
AbsoluteKeyOnly(n, seen) == Key(n)

\* Permission.absolute_permission; seen holds the objects whose property is
\* being computed: coming back to one of them is a recursion without end,
\* which the interpreter cuts with a RecursionError
RECURSIVE AbsoluteFrom(_, _)
AbsoluteFrom(n, seen) ==
    IF n \in seen THEN RecursionError
    ELSE IF parent[n] # 0 /\ ~is_root(parent[n])
    THEN LET up == AbsoluteFrom(parent[n], seen \cup {n})
         IN IF up = RecursionError THEN RecursionError
            ELSE up \o <<".">> \o Key(n)
    ELSE Key(n)

absolute_permission(n) == AbsoluteFrom(n, {})

\* "assert permission.key" of Permission.register, on a child whose _key is k
ChildAccepted(k) == Len(KeyOf(k)) > 0

\* Permission.register on the objects c: the loop sets _parent child by child
\* and stops at the first child its assertion refuses; the list is appended
\* to _children when the loop has ended
RegisterIn(c, receiver, permissions) ==
    LET refused == {i \in 1..Len(permissions) : ~ChildAccepted(c.keys[permissions[i]])}
        done == IF refused = {} THEN Len(permissions)
                ELSE (CHOOSE i \in refused : \A j \in refused : i <= j) - 1
    IN [keys |-> c.keys,
        parent |-> [n \in 1..Len(c.keys) |->
                       IF \E i \in 1..done : permissions[i] = n
                       THEN receiver ELSE c.parent[n]],
        children |-> IF refused = {}
                     THEN [c.children EXCEPT ![receiver] = @ \o permissions]
                     ELSE c.children]

\* a variant of the step that drops the first key whether it matched or not
ConsumeAlways(ks, key_matches) == Tail(ks)

\* "keys = keys[1:]" of Permission.exists, made when the first key matches
Consume(ks, key_matches) == IF key_matches THEN Tail(ks) ELSE ks

\* the head of Permission.exists: the trailing wildcard is removed
Strip(permission) ==
    IF EndsWith(permission, ">") THEN Pop(permission) ELSE permission

\* Permission.exists; active holds the <<object, permission>> calls that
\* have not returned: the same call made again below itself never returns,
\* which the interpreter cuts with a RecursionError
RECURSIVE ExistsFrom(_, _, _)
RECURSIVE ExistsChildren(_, _, _, _)
ExistsFrom(n, permission0, active) ==
    LET permission == Strip(permission0)
        ks == Split(permission)
        key_matches == ks[1] = Key(n)
        rest == Consume(ks, key_matches)
    IN IF <<n, permission0>> \in active THEN RecursionError
       ELSE IF StartsWith(permission, ">") THEN AssertionError
       ELSE IF StartsWith(permission, "*") /\ permission # <<"*">> THEN AssertionError
       ELSE IF ~(Len(ks[1]) > 0) THEN AssertionError
       ELSE IF key_matches \/ is_root(n)
       THEN IF Len(rest) > 0
            THEN ExistsChildren(n, 1, Join(rest), active \cup {<<n, permission0>>})
            ELSE IF key_matches THEN True ELSE False
       ELSE False

\* the loop of exists over self._children, from the i-th child on
ExistsChildren(n, i, permission, active) ==
    IF i > Len(children[n]) THEN False
    ELSE LET r == ExistsFrom(children[n][i], permission, active)
         IN IF r = False THEN ExistsChildren(n, i + 1, permission, active)
            ELSE r

exists(n, permission) == ExistsFrom(n, permission, {})

\* ------------------------------------------------------------- core.py
\* a variant of the filter that keeps the rows without the wildcard
FilterNotWildcard(queryset) == {g \in queryset : ~EndsWith(g, ">")}

\* queryset.filter(permission__iendswith=">")
FilterWildcard(queryset) == {g \in queryset : EndsWith(g, ">")}

\* "found" of _has_permission: the exact row or the "*" row unless
\* wildcard_only, or the row of the permission with ">" appended
Found(queryset, permission, wildcard_only) ==
    \/ /\ ~wildcard_only
       /\ \/ permission \in queryset
          \/ <<"*">> \in queryset
    \/ (permission \o <<">">>) \in queryset

RECURSIVE _has_permission(_, _, _)
_has_permission(queryset, permission, wildcard_only) ==
    IF Contains(permission, ">") THEN AssertionError
    ELSE IF ~(Len(permission) > 0) THEN AssertionError
    ELSE LET path_segments == Pop(Split(permission))
         IN IF Found(queryset, permission, wildcard_only) THEN True
            ELSE IF path_segments = <<>> THEN False
            ELSE _has_permission(
                     IF ~wildcard_only THEN FilterWildcard(queryset) ELSE queryset,
                     Join(path_segments), TRUE)

RECURSIVE GroupsLoop(_, _, _)

\* a variant of the loop that returns what the first group gives
GroupsLoopFirst(groups, i, permission) ==
    IF i > Len(groups) THEN False
    ELSE _has_permission(groups[i], permission, FALSE)

\* the loop of has_permission over user.groups.all(), from the i-th group on
GroupsLoop(groups, i, permission) ==
    IF i > Len(groups) THEN False
    ELSE LET group_permission == _has_permission(groups[i], permission, FALSE)
         IN IF group_permission = False
            THEN GroupsLoop(groups, i + 1, permission)
            ELSE group_permission

\* _load_permission_root returns the root object of the permissions module
root == 1

\* a variant of has_permission that does not ask the catalog
has_permission_ungated(perms, groups, permission) ==
    LET user_permission == _has_permission(perms, permission, FALSE)
    IN IF user_permission = False
       THEN GroupsLoop(groups, 1, permission)
       ELSE user_permission

has_permission(perms, groups, permission) ==
    LET found == exists(root, permission)
        user_permission == _has_permission(perms, permission, FALSE)
    IN IF found = True
       THEN IF user_permission = False
            THEN GroupsLoop(groups, 1, permission)
            ELSE user_permission
       ELSE found

\* ------------------------------------------------------------- the catalog
Catalog == [keys |-> keys, parent |-> parent, children |-> children]

SetCatalog(c) ==
    /\ keys' = c.keys
    /\ parent' = c.parent
    /\ children' = c.children

\* Permission(key)
New(key) ==
    /\ call.op = "none"
    /\ Len(keys) < MaxNodes
    /\ KeyAccepted(key)
    /\ SetCatalog(NewIn(Catalog, key))
    /\ UNCHANGED <<userPerms, groupPerms, call>>

RECURSIVE EntriesFrom(_)
EntriesFrom(n) ==
    IF n > Len(children) THEN 0 ELSE Len(children[n]) + EntriesFrom(n + 1)

\* the entries of all _children lists together
ChildCount == EntriesFrom(1)

\* receiver.register(permissions)
Register(receiver, permissions) ==
    /\ call.op = "none"
    /\ ChildCount + Len(permissions) <= MaxChildren
    /\ SetCatalog(RegisterIn(Catalog, receiver, permissions))
    /\ UNCHANGED <<userPerms, groupPerms, call>>

\* root.exists(s)
CallExists(s) ==
    /\ call.op = "none"
    /\ call' = [op |-> "exists", arg |-> s, result |-> exists(root, s)]
    /\ UNCHANGED <<keys, parent, children, userPerms, groupPerms>>

\* n.absolute_permission
CallAbsolutePermission(n) ==
    /\ call.op = "none"
    /\ call' = [op |-> "absolute_permission", arg |-> n,
                result |-> absolute_permission(n)]
    /\ UNCHANGED <<keys, parent, children, userPerms, groupPerms>>

\* has_permission(user, p)
CallHasPermission(p) ==
    /\ call.op = "none"
    /\ call' = [op |-> "has_permission", arg |-> p,
                result |-> has_permission(userPerms, groupPerms, p)]
    /\ UNCHANGED <<keys, parent, children, userPerms, groupPerms>>

\* the permissions module has made its root object; the user has no row
\* and no group
Init ==
    /\ keys = << <<>> >>
    /\ parent = <<0>>
    /\ children = << <<>> >>
    /\ userPerms = {}
    /\ groupPerms = <<>>
    /\ call = NoCall

Next ==
    \/ \E key \in StrUpTo(MaxKeyLen) : New(key)
    \/ \E receiver \in Nodes,
          permissions \in UNION {[1..k -> Nodes] : k \in 1..MaxChildren} :
           Register(receiver, permissions)
    \/ \E s \in StrUpTo(MaxLen) : CallExists(s)
    \/ \E n \in Nodes : CallAbsolutePermission(n)
    \/ \E p \in StrUpTo(MaxLen) : CallHasPermission(p)

Spec == Init /\ [][Next]_vars

\* ------------------------------------------------------------- the rows
RECURSIVE GroupRowsFrom(_)
GroupRowsFrom(g) ==
    IF g > Len(groupPerms) THEN 0
    ELSE Cardinality(groupPerms[g]) + GroupRowsFrom(g + 1)

\* the rows of the user and of the groups together
RowCount == Cardinality(userPerms) + GroupRowsFrom(1)

\* UserPermission.objects.get_or_create(user=user, permission=s)
AddUserPermission(s, most) ==
    /\ call.op = "none"
    /\ s \notin userPerms
    /\ RowCount < most
    /\ userPerms' = userPerms \cup {s}
    /\ UNCHANGED <<keys, parent, children, groupPerms, call>>

\* GroupPermission.objects.get_or_create(group=g, permission=s)
AddGroupPermission(g, s, most) ==
    /\ call.op = "none"
    /\ s \notin groupPerms[g]
    /\ RowCount < most
    /\ groupPerms' = [groupPerms EXCEPT ![g] = @ \cup {s}]
    /\ UNCHANGED <<keys, parent, children, userPerms, call>>

\* group.user_set.add(user), for a group without rows
AddGroup ==
    /\ call.op = "none"
    /\ Len(groupPerms) < MaxGroups
    /\ groupPerms' = Append(groupPerms, {})
    /\ UNCHANGED <<keys, parent, children, userPerms, call>>

\* _has_permission(user.permagate_permissions.all(), p)
CallMatch(p) ==
    /\ call.op = "none"
    /\ call' = [op |-> "_has_permission", arg |-> p,
                result |-> _has_permission(userPerms, p, FALSE)]
    /\ UNCHANGED <<keys, parent, children, userPerms, groupPerms>>

\* the strings of key letters and separators
PathChar == {"a", "."}

PathStrUpTo(n) == UNION {[1..k -> PathChar] : k \in 0..n}

InitMatch ==
    /\ keys = << <<>> >>
    /\ parent = <<0>>
    /\ children = << <<>> >>
    /\ userPerms = {}
    /\ groupPerms = <<>>
    /\ call = NoCall

NextMatch ==
    \/ \E s \in StrUpTo(MaxGrantLen) : AddUserPermission(s, MaxGrants)
    \/ \E p \in PathStrUpTo(MaxPathLen) : CallMatch(p)

SpecMatch == InitMatch /\ [][NextMatch]_vars

\* ------------------------------------------------------------- has_permission on rows
\* the catalog of a permissions module: root.register([test.register([sub]),
\* test2]), with the keys "a", "aa" and "aa"
TestPermissions ==
    LET made == NewIn(NewIn(NewIn(NewIn(
                    [keys |-> <<>>, parent |-> <<>>, children |-> <<>>],
                    <<>>), <<"a">>), <<"a", "a">>), <<"a", "a">>)
    IN RegisterIn(RegisterIn(made, 2, <<3>>), root, <<2, 4>>)

\* a second catalog: rootTwo.register([test2.register([sub])]), with the
\* keys "aa" and "a"
RootTwo ==
    LET made == NewIn(NewIn(NewIn(
                    [keys |-> <<>>, parent |-> <<>>, children |-> <<>>],
                    <<>>), <<"a", "a">>), <<"a">>)
    IN RegisterIn(RegisterIn(made, 2, <<3>>), root, <<2>>)

\* the permission strings of the rows: the root permission, permissions with
\* and without the inclusive wildcard, in and out of the catalogs
RowStrings ==
    { <<"*">>,
      <<"a">>, <<"a", ">">>,
      <<"a", "a">>, <<"a", "a", ">">>,
      <<"a", ".", "a">>,
      <<"a", ".", "a", "a">>, <<"a", ".", "a", "a", ">">>,
      <<"a", "a", ".", "a">> }

InitAuth ==
    /\ \E c \in {TestPermissions, RootTwo} :
           /\ keys = c.keys
           /\ parent = c.parent
           /\ children = c.children
    /\ userPerms = {}
    /\ groupPerms = <<>>
    /\ call = NoCall

NextAuth ==
    \/ AddGroup
    \/ \E s \in RowStrings : AddUserPermission(s, MaxRows)
    \/ \E g \in 1..Len(groupPerms), s \in RowStrings : AddGroupPermission(g, s, MaxRows)
    \/ \E p \in PathStrUpTo(MaxLen) : CallHasPermission(p)

SpecAuth == InitAuth /\ [][NextAuth]_vars

\* ------------------------------------------------------------- properties
Bool(b) == IF b THEN True ELSE False

\* a request path: segments of key letters, none empty, separated by "."
WellFormedPath(p) ==
    /\ Len(p) > 0
    /\ \A i \in 1..Len(p) : p[i] \notin {">", "*"}
    /\ p[1] # "." /\ p[Len(p)] # "."
    /\ \A i \in 1..(Len(p) - 1) : ~(p[i] = "." /\ p[i + 1] = ".")

\* a string with an empty segment somewhere
HasEmptySegment(s) ==
    \/ Len(s) = 0
    \/ s[1] = "." \/ s[Len(s)] = "."
    \/ \E i \in 1..(Len(s) - 1) : s[i] = "." /\ s[i + 1] = "."

\* the rows G cover the path p: the root wildcard, the path itself, or the
\* first i segments of p followed by ">"
Covered(G, p) ==
    \/ <<"*">> \in G
    \/ p \in G
    \/ \E j \in 1..Len(p) :
           /\ (j = Len(p) \/ p[j + 1] = ".")
           /\ (SubSeq(p, 1, j) \o <<">">>) \in G

\* the objects reached from the root through _children lists
RECURSIVE ReachFrom(_)
ReachFrom(S) ==
    LET T == S \cup UNION {Range(children[n]) : n \in S}
    IN IF T = S THEN S ELSE ReachFrom(T)

Reach == ReachFrom({root})

\* the objects at the end of a chain root -> n1 -> ... -> nk, each a child of
\* the one before, whose keys are the segments segs in order
RECURSIVE Walk(_, _)
Walk(ns, segs) ==
    IF segs = <<>> THEN ns
    ELSE Walk({c \in UNION {Range(children[n]) : n \in ns} : keys[c] = Head(segs)},
              Tail(segs))

NamesNode(s) == Walk({root}, Split(s)) # {}

\* one root without a key, and no object without a key below it
WellFormedCatalog ==
    /\ is_root(root)
    /\ \A n \in Reach : \A i \in 1..Len(children[n]) : ~is_root(children[n][i])

\* how many entries of all _children lists are the object n
Registrations(n) ==
    Cardinality(UNION {{<<m, i>> : i \in {j \in 1..Len(children[m]) :
                                              children[m][j] = n}} : m \in Nodes})

\* a well-formed catalog whose root was registered nowhere and each other
\* object of which was registered exactly once
TreeCatalog ==
    /\ WellFormedCatalog
    /\ Registrations(root) = 0
    /\ \A n \in Reach \ {root} : Registrations(n) = 1

Reverse(s) == [i \in 1..Len(s) |-> s[Len(s) + 1 - i]]

GroupsInclusiveOr ==
    (call.op = "has_permission" /\ WellFormedPath(call.arg) /\ NamesNode(call.arg))
        => /\ call.result =
                Bool(\/ Covered(userPerms, call.arg)
                     \/ \E g \in 1..Len(groupPerms) : Covered(groupPerms[g], call.arg))
           /\ call.result = has_permission(userPerms, Reverse(groupPerms), call.arg)

\* C2 witness: no row of the user, the first group does not cover the
\* permission, the second does, and the call returned True
GroupsWitness ==
    /\ call.op = "has_permission"
    /\ WellFormedPath(call.arg) /\ NamesNode(call.arg)
    /\ userPerms = {}
    /\ Len(groupPerms) = 2
    /\ ~Covered(groupPerms[1], call.arg)
    /\ groupPerms[1] # {}
    /\ Covered(groupPerms[2], call.arg)
    /\ call.result = True

\* C3: for a well-formed request path that names no node of the catalog,
\* has_permission is False whatever the rows of the user and the groups are.
CatalogGate ==
    (call.op = "has_permission" /\ WellFormedPath(call.arg) /\ ~NamesNode(call.arg))
        => call.result = False

\* C3 witness: "a.a" is not in the catalog, the user holds the rows "a.a"
\* and "*", and the call returned False
CatalogGateWitness ==
    /\ call.op = "has_permission"
    /\ call.arg = <<"a", ".", "a">>
    /\ ~NamesNode(call.arg)
    /\ userPerms = {<<"a", ".", "a">>, <<"*">>}
    /\ call.result = False

\* C4: in a well-formed catalog root.exists(s) is True for a well-formed path
\* s exactly when a chain of children from the root carries the segments of
\* s in order; root.exists("*") is True; root.exists(s + ">") is root.exists(s).
ExistsNamesNode ==
    (call.op = "exists" /\ WellFormedCatalog)
        => /\ WellFormedPath(call.arg) => call.result = Bool(NamesNode(call.arg))
           /\ call.arg = <<"*">> => call.result = True
           /\ (EndsWith(call.arg, ">") /\ WellFormedPath(Pop(call.arg)))
                  => /\ call.result = exists(root, Pop(call.arg))
                     /\ call.result = Bool(NamesNode(Pop(call.arg)))

\* C4 witness: root -> "a" -> "aa", and root.exists("a.aa") returned True
ExistsWitness ==
    /\ call.op = "exists"
    /\ WellFormedCatalog
    /\ call.arg = <<"a", ".", "a", "a">>
    /\ call.result = True

\* C5: root.exists raises, and does not return False, on every string with an
\* empty segment, whatever nodes the leading segments name.
ExistsRejectsEmptySegment ==
    (call.op = "exists" /\ HasEmptySegment(call.arg))
        => call.result = AssertionError

\* C6: has_permission raises, and returns neither False nor True, on a string
\* that is empty, has an empty segment, or holds ">" or "*".
HasPermissionRejectsMalformed ==
    (/\ call.op = "has_permission"
     /\ \/ HasEmptySegment(call.arg)
        \/ Contains(call.arg, ">")
        \/ Contains(call.arg, "*"))
        => call.result \notin {True, False}

\* C7: no object without a key is ever in a _children list or has a parent.
NoRootChild ==
    \A n \in Nodes :
        /\ \A i \in 1..Len(children[n]) : ~is_root(children[n][i])
        /\ is_root(n) => parent[n] = 0

\* C8: once an object with a key has a parent, no register call changes it.
ParentSetOnce ==
    [][\A n \in Nodes :
           (~is_root(n) /\ parent[n] # 0) => parent'[n] = parent[n]]_vars

\* C9: every has_permission call ends with a boolean or an assertion error:
\* the recursion of exists never comes back to a call it is still making.
HasPermissionTerminates ==
    call.op = "has_permission" => call.result # RecursionError

\* C10: in a catalog each object of which was registered exactly once, every
\* object n reached from the root has root.exists(n.absolute_permission) True,
\* the root's absolute_permission is "*", and every well-formed path that
\* exists is the absolute_permission of an object reached from the root.
RoundTrip ==
    /\ (call.op = "absolute_permission" /\ TreeCatalog /\ call.arg \in Reach)
           => /\ exists(root, call.result) = True
              /\ call.arg = root => call.result = <<"*">>
    /\ (/\ call.op = "exists" /\ TreeCatalog
        /\ WellFormedPath(call.arg) /\ call.result = True)
           => \E n \in Reach : absolute_permission(n) = call.arg

\* C10 witness: root -> "a" -> "aa", and the absolute_permission of the
\* object "aa" was computed as "a.aa"
RoundTripWitness ==
    /\ call.op = "absolute_permission"
    /\ TreeCatalog
    /\ call.arg \in Reach
    /\ call.result = <<"a", ".", "a", "a">>

====
